---- MODULE Spec2Model ----
\* Verification model of scylla-machine-image's cloud identification layer
\* (lib/scylla_cloud.py, lib/user_data.py): the provider race of
\* identify_cloud_async on the asyncio event loop, the memoized
\* identify_cloud(), the retry loop of curl/aiocurl, the AWS metadata
\* token gate, and the disk enumeration of the four CloudInstance variants.
EXTENDS Integers, Sequences, FiniteSets, TLC

\* ------------------------------------------------------------------
\* Bounds of the model
\* ------------------------------------------------------------------
\* number of calls of identify_cloud()/is_*()/get_cloud_instance() in a run
MaxCalls == 2

\* AWS token model: clock advances and __instance_metadata calls in a run
MaxTicks == 5
MaxFetches == 4

\* GCP: the largest NVME disk count the metadata service reports
MaxMetadataDisks == 3

\* ------------------------------------------------------------------
\* Program constants
\* ------------------------------------------------------------------
\* curl/aiocurl: max_retries=5
MaxRetries == 5

\* _curl_one: timeout=3, seconds, handed to urlopen
CurlTimeout == 3

\* AwsInstance.METADATA_TOKEN_TTL, seconds
METADATA_TOKEN_TTL == 21600

\* AwsInstance.__instance_metadata: refresh when within 120 s of the TTL
TokenMargin == 120

\* the tasks of identify_cloud_async, in creation order
Providers == {"aws", "gcp", "azure", "oci"}
TaskOrder == <<"aws", "gcp", "azure", "oci">>

\* what one _curl_one request can end in: a body, an HTTPError with a
\* 4xx or a 5xx code, a plain URLError (refused, DNS, connect timeout), or
\* a bare TimeoutError (socket timeout while reading)
Outcomes == {"ok", "http4xx", "http5xx", "urlerror", "timeout"}

\* socket.getaddrinfo("metadata.google.internal"): raises gaierror, resolves
\* to some other address, or resolves to 169.254.169.254
DnsAnswers == {"gaierror", "other", "metadata"}

VARIABLES
    dmi,        \* providers whose identify_dmi() matches on this machine
    tpc,        \* per task: "new", "resolve" (inside getaddrinfo), "request"
                \* (inside _curl_one), "sleep", "done"
    tres,       \* per task: "pending", "cls", "none", "exc", "cancelled"
    retries,    \* per task: aiocurl's retries counter
    attempts,   \* per task: number of _curl_one requests issued
    dnsLookups, \* number of getaddrinfo calls issued
    cancelReq,  \* per task: Task.cancel() was called on it
    ready,      \* the event loop's _ready queue of handles
    ntodo,      \* handles left to run in the current loop iteration
    timers,     \* sleeping tasks in order of their wake-up time
    doneq,      \* as_completed's queue of finished tasks
    mainPc,     \* "idle", "waiting", "shutdown"
    mainWait,   \* the race coroutine is suspended on the empty done queue
    awaited,    \* number of tasks the race coroutine has awaited
    raceResult, \* "unset", "none", a provider, or "raised"
    firstOk,    \* the provider whose task was the first to return its class
    okSeen,     \* providers whose metadata request was answered with a body
    cache,      \* functools.cache of identify_cloud: "unset", "none", a provider
    detections, \* number of times identify_cloud_async was run
    calls,      \* number of calls made so far
    callFn,     \* the function the caller invoked
    lastReturn, \* what the last finished call gave its caller
    \* --- one call of curl / aiocurl
    cPc,        \* "idle", "request", "sleep", "done"
    cAsync,     \* TRUE: aiocurl (asyncio.sleep), FALSE: curl (time.sleep)
    cMax,       \* the call's max_retries argument
    cRetries,   \* the retries counter
    cAttempts,  \* _curl_one requests issued by the call
    cSleeps,    \* inter-attempt sleeps taken by the call
    cResult,    \* "-", "body", "raised"
    cErr,       \* the error of the call's last attempt ("-": none)
    \* --- AwsInstance metadata token
    now,        \* the clock, seconds
    tokTime,    \* _metadata_token_time
    tokIssued,  \* when the token held in _metadata_token was issued (-1: None)
    ticks,      \* clock advances so far
    fetches,    \* __instance_metadata calls so far
    lastMeta,   \* record of the last __instance_metadata call
    \* --- a boot step using the cloud instance
    bDetected,  \* what identify_cloud() gives in this process
    bStep,      \* the step that runs
    bRaw,       \* what the metadata service holds as user-data
    bPc,        \* "start", "user_data", "done"
    bCloud,     \* _cloud_instance: "unset", "none" or a provider's instance
    bUserData,  \* _instance_user_data: "unset", "none", "empty", "parsed"
    bOutcome,   \* "running", "error" (uncaught exception), "completed"
    bWarned,    \* a warning was logged
    bBandwidth, \* estimate_streaming_bandwidth's result ("-": not computed)
    bScript,    \* the settings in the user-data carry a post_start_script
    bRan,       \* run_post_start_script has run the script
    \* --- disk enumeration of one instance
    dProv,      \* the provider of the instance ("-": none)
    dRoots,     \* the partitions that really back the mounts at "/"
    dAlias,     \* psutil names the root partition /dev/root
    dListing,   \* the names in /dev
    dEbs,       \* AWS: NVMe controllers whose model is Amazon Elastic Block Store
    dSwap,      \* Azure: what /dev/disk/cloud/azure_resource resolves to (<<>>: absent)
    dMdCount,   \* GCP: NVME disks in the metadata's disks resource (-1: fetch fails)
    dDevmap,    \* AWS: the entries of meta-data/block-device-mapping
    dDevmapErr, \* AWS: fetching the block device mapping fails
    dSize,      \* Azure: the instance size (vmSize)
    dPc,        \* "new", "ready", "failed" (the constructor raised)
    dDisks,     \* the disk set last enumerated
    dCount,     \* nvme_disk_count (-1: not read)
    dLocal,     \* what get_local_disks() returned
    dAsked,     \* the queries made so far
    \* --- one IO preset resolver (lib/scylla_cloud_io_setup.py)
    ioProv,     \* the resolver's provider ("-": none)
    ioType,     \* AWS: the instance type as <<class, size>> (<<>>: not AWS)
    ioSupported,\* what idata.is_supported_instance_class() answers
    ioDisks,    \* len(get_local_disks()) on AWS, nvme_disk_count elsewhere
    ioPc,       \* "new", "generated", "raised", "saved"
    ioProps,    \* disk_properties: the <<key, value>> items of the dict
    ioMount,    \* disk_properties has the key "mountpoint"
    ioErr,      \* the type of the exception generate() raised ("": none)
    ioFile,     \* what save() wrote to io_properties.yaml (<<>>: nothing)
    \* --- the descriptors get_cloud_instance() returns in one process
    oProv,        \* the provider identify_cloud() has memoized ("-": none)
    oHasUserData, \* the instance was launched with user-data
    oConstructed, \* descriptors constructed so far
    oEnumerated,  \* times AwsInstance.__init__ has enumerated the disks
    oCached,      \* what the newest descriptor has stored in itself
    oAccesses,    \* accesses of each property of the newest descriptor
    oRequests,    \* metadata requests those accesses have made, by property
    oResult       \* the last access: the property and what it gave

raceVars == <<dmi, tpc, tres, retries, attempts, dnsLookups,
              cancelReq, ready, ntodo, timers, doneq, mainPc, mainWait,
              awaited, raceResult, firstOk, okSeen, cache, detections, calls, callFn,
              lastReturn>>

curlVars == <<cPc, cAsync, cMax, cRetries, cAttempts, cSleeps, cResult, cErr>>

tokenVars == <<now, tokTime, tokIssued, ticks, fetches, lastMeta>>

bootVars == <<bDetected, bStep, bRaw, bPc, bCloud, bUserData, bOutcome,
              bWarned, bBandwidth, bScript, bRan>>

diskVars == <<dProv, dRoots, dAlias, dListing, dEbs, dSwap, dMdCount, dDevmap,
              dDevmapErr, dSize, dPc, dDisks, dCount, dLocal, dAsked>>

ioVars == <<ioProv, ioType, ioSupported, ioDisks, ioPc, ioProps, ioMount,
            ioErr, ioFile>>

objVars == <<oProv, oHasUserData, oConstructed, oEnumerated, oCached,
             oAccesses, oRequests, oResult>>

vars == <<raceVars, curlVars, tokenVars, bootVars, diskVars, ioVars, objVars>>

\* a step of one part leaves the other parts alone
RaceOnly == UNCHANGED <<curlVars, tokenVars, bootVars, diskVars, ioVars,
                        objVars>>
CurlOnly == UNCHANGED <<raceVars, tokenVars, bootVars, diskVars, ioVars,
                        objVars>>
TokenOnly == UNCHANGED <<raceVars, curlVars, bootVars, diskVars, ioVars,
                         objVars>>
BootOnly == UNCHANGED <<raceVars, curlVars, tokenVars, diskVars, ioVars,
                        objVars>>
DiskOnly == UNCHANGED <<raceVars, curlVars, tokenVars, bootVars, ioVars,
                        objVars>>
IoOnly == UNCHANGED <<raceVars, curlVars, tokenVars, bootVars, diskVars,
                      objVars>>
ObjOnly == UNCHANGED <<raceVars, curlVars, tokenVars, bootVars, diskVars,
                       ioVars>>

\* ------------------------------------------------------------------
\* Helpers
\* ------------------------------------------------------------------
Handle(k, p) == [k |-> k, p |-> p]

RECURSIVE SeqToSet(_)
SeqToSet(s) == IF s = <<>> THEN {} ELSE {Head(s)} \cup SeqToSet(Tail(s))

\* the task whose blocking call (_curl_one's urlopen, or GCP's
\* socket.getaddrinfo) holds the thread, if any
Requesting == {p \in Providers : tpc[p] \in {"request", "resolve"}}
ThreadFree == Requesting = {}

\* the timeout a blocking network call is made with, 0 for none: urlopen
\* gets _curl_one's timeout, socket.getaddrinfo is called with host and
\* port only
NetTimeout(op) == IF op = "request" THEN CurlTimeout ELSE 0

\* CloudInstance subclasses' identify_dmi(): the class when the DMI files match
identify_dmi(p) == p \in dmi

\* ------------------------------------------------------------------
\* identify_metadata's exception handlers, per provider: what the task
\* returns when aiocurl raised err ("none": returns None, "exc": the
\* exception leaves the task)
\* ------------------------------------------------------------------
AwsHandler(err) == "none"

\* mutant: GCP's handler takes the HTTP error for an identification
GcpHandlerReturnsCls(err) ==
    IF err \in {"http4xx", "http5xx"} THEN "cls" ELSE "exc"

GcpHandler(err) == IF err \in {"http4xx", "http5xx"} THEN "none" ELSE "exc"

AzureHandler(err) ==
    IF err \in {"http4xx", "http5xx", "urlerror"} THEN "none" ELSE "exc"

OciHandler(err) == "none"

MetadataHandler(p, err) ==
    CASE p = "aws" -> AwsHandler(err)
      [] p = "gcp" -> GcpHandler(err)
      [] p = "azure" -> AzureHandler(err)
      [] p = "oci" -> OciHandler(err)

\* mutant: the client-error check is missing, every error is retried
NeverRaisesAtOnce(outcome) == FALSE

\* curl/aiocurl: is the error of this attempt raised at once (no sleep, no
\* retry)? HTTPError with e.code in range(400, 500)
RaisesAtOnce(outcome) == outcome = "http4xx"

\* the errors curl/aiocurl sleep on and retry
Retryable == {o \in Outcomes : o # "ok" /\ ~RaisesAtOnce(o)}

\* mutant: the bound is compared with > instead of >=, one attempt too many
ExhaustedLate(r, max_retries) == r > max_retries

\* curl/aiocurl: after the sleep, retries += 1; is max_retries reached?
Exhausted(r, max_retries) == r >= max_retries

\* ------------------------------------------------------------------
\* The caller-facing wrappers around the memoized result v
\* ------------------------------------------------------------------
Functions == {"identify_cloud", "is_ec2", "is_gce", "is_azure", "is_oci",
              "get_cloud_instance"}

Bool(b) == IF b THEN "True" ELSE "False"

\* is_ec2/is_gce/is_azure/is_oci compare identify_cloud() with a class;
\* get_cloud_instance instantiates the class, or gives None
Wrapper(fn, v) ==
    CASE fn = "identify_cloud" -> v
      [] fn = "is_ec2" -> Bool(v = "aws")
      [] fn = "is_gce" -> Bool(v = "gcp")
      [] fn = "is_azure" -> Bool(v = "azure")
      [] fn = "is_oci" -> Bool(v = "oci")
      [] fn = "get_cloud_instance" -> IF v \in Providers THEN v ELSE "none"

\* functools.cache keeps what identify_cloud returned; a call that raised
\* leaves the cache as it was
CacheAfter(old, result) == IF result = "raised" THEN old ELSE result

\* ------------------------------------------------------------------
\* Initial state: the machine's DMI files are fixed for the life of the
\* process; nothing has been called yet
\* ------------------------------------------------------------------
NoTasks == [p \in Providers |-> "new"]

RaceInit ==
    /\ dmi \in SUBSET Providers
    /\ tpc = NoTasks
    /\ tres = [p \in Providers |-> "pending"]
    /\ retries = [p \in Providers |-> 0]
    /\ attempts = [p \in Providers |-> 0]
    /\ dnsLookups = 0
    /\ cancelReq = [p \in Providers |-> "no"]
    /\ ready = <<>>
    /\ ntodo = 0
    /\ timers = <<>>
    /\ doneq = <<>>
    /\ mainPc = "idle"
    /\ mainWait = FALSE
    /\ awaited = 0
    /\ raceResult = "unset"
    /\ firstOk = "none"
    /\ okSeen = {}
    /\ cache = "unset"
    /\ detections = 0
    /\ calls = 0
    /\ callFn = "-"
    /\ lastReturn = "-"

\* ------------------------------------------------------------------
\* identify_cloud() and its wrappers
\* ------------------------------------------------------------------
\* a call that finds the memoized result
CallCached(fn) ==
    /\ mainPc = "idle"
    /\ calls < MaxCalls
    /\ cache # "unset"
    /\ calls' = calls + 1
    /\ callFn' = fn
    /\ lastReturn' = Wrapper(fn, cache)
    /\ UNCHANGED <<dmi, tpc, tres, retries, attempts,
                   dnsLookups, cancelReq, ready, ntodo, timers, doneq, mainPc,
                   mainWait, awaited, raceResult, firstOk, okSeen, cache, detections>>
    /\ RaceOnly

\* a call that finds nothing memoized: asyncio.run(identify_cloud_async()).
\* The race coroutine creates the four tasks (their first steps are queued
\* in creation order) and suspends on as_completed's empty queue. Which
\* wrapper made the call plays no part until identify_cloud returns to it.
CallDetect ==
    /\ mainPc = "idle"
    /\ calls < MaxCalls
    /\ cache = "unset"
    /\ calls' = calls + 1
    /\ callFn' = "-"
    /\ detections' = detections + 1
    /\ tpc' = NoTasks
    /\ tres' = [p \in Providers |-> "pending"]
    /\ retries' = [p \in Providers |-> 0]
    /\ cancelReq' = [p \in Providers |-> "no"]
    /\ ready' = [i \in 1..Len(TaskOrder) |-> Handle("step", TaskOrder[i])]
    /\ ntodo' = 0
    /\ timers' = <<>>
    /\ doneq' = <<>>
    /\ mainPc' = "waiting"
    /\ mainWait' = TRUE
    /\ awaited' = 0
    /\ raceResult' = "unset"
    /\ firstOk' = "none"
    /\ okSeen' = {}
    /\ attempts' = [p \in Providers |-> 0]
    /\ dnsLookups' = 0
    /\ UNCHANGED <<dmi, cache, lastReturn>>
    /\ RaceOnly

\* ------------------------------------------------------------------
\* The event loop (BaseEventLoop._run_once): timers that are due move to
\* the ready queue, then the handles that are ready now are run in order
\* ------------------------------------------------------------------
LoopRuns ==
    \/ mainPc = "waiting"
    \/ mainPc = "shutdown" /\ \E p \in Providers : tpc[p] # "done"

LoopIterate ==
    /\ LoopRuns
    /\ ThreadFree
    /\ ntodo = 0
    /\ \E k \in 0..Len(timers) :
        /\ ready = <<>> => k >= 1
        /\ ready' = ready \o [i \in 1..k |-> Handle("timer", timers[i])]
        /\ timers' = SubSeq(timers, k + 1, Len(timers))
        /\ ntodo' = Len(ready')
    /\ ntodo' > 0
    /\ UNCHANGED <<dmi, tpc, tres, retries, attempts,
                   dnsLookups, cancelReq, doneq, mainPc, awaited, mainWait, raceResult,
                   firstOk, okSeen, cache, detections, calls, callFn, lastReturn>>
    /\ RaceOnly

Runs(h) ==
    /\ LoopRuns
    /\ ThreadFree
    /\ ntodo > 0
    /\ ready # <<>>
    /\ Head(ready) = h

\* asyncio.sleep's timer fires: the sleep future gets its result and the
\* task's next step is queued (nothing happens if the future was cancelled)
RunTimer(p) ==
    /\ Runs(Handle("timer", p))
    /\ ready' = Tail(ready) \o
                (IF cancelReq[p] = "no" /\ tpc[p] = "sleep"
                 THEN <<Handle("step", p)>> ELSE <<>>)
    /\ ntodo' = ntodo - 1
    /\ UNCHANGED <<dmi, tpc, tres, retries, attempts,
                   dnsLookups, cancelReq, timers, doneq, mainPc, awaited, mainWait,
                   raceResult, firstOk, okSeen, cache, detections, calls, callFn,
                   lastReturn>>
    /\ RaceOnly

\* a task ends with result res: its done callback (as_completed's
\* _on_completion) is queued
Finished(p, res) ==
    /\ tpc' = [tpc EXCEPT ![p] = "done"]
    /\ tres' = [tres EXCEPT ![p] = res]
    /\ firstOk' = IF res = "cls" /\ firstOk = "none" THEN p ELSE firstOk

\* CloudInstance.identify, first step of the task:
\*   cls.identify_dmi() or await cls.identify_metadata()
\* up to the first blocking call
TaskStart(p) ==
    /\ Runs(Handle("step", p))
    /\ tpc[p] = "new"
    /\ ntodo' = ntodo - 1
    /\ IF cancelReq[p] # "no"
       THEN /\ Finished(p, "cancelled")
            /\ ready' = Tail(ready) \o <<Handle("cb", p)>>
            /\ UNCHANGED <<attempts, dnsLookups>>
       ELSE IF identify_dmi(p)
       THEN /\ Finished(p, "cls")
            /\ ready' = Tail(ready) \o <<Handle("cb", p)>>
            /\ UNCHANGED <<attempts, dnsLookups>>
       ELSE IF p = "gcp"
       THEN \* GcpInstance.identify_metadata: the thread blocks in
            \* socket.getaddrinfo("metadata.google.internal", 80)
            /\ tpc' = [tpc EXCEPT ![p] = "resolve"]
            /\ dnsLookups' = dnsLookups + 1
            /\ ready' = Tail(ready)
            /\ UNCHANGED <<tres, firstOk, attempts>>
       ELSE \* aiocurl's first _curl_one: the thread blocks in urlopen
            /\ tpc' = [tpc EXCEPT ![p] = "request"]
            /\ attempts' = [attempts EXCEPT ![p] = @ + 1]
            /\ ready' = Tail(ready)
            /\ UNCHANGED <<tres, firstOk, dnsLookups>>
    /\ UNCHANGED <<dmi, retries, cancelReq, timers, doneq,
                   mainPc, awaited, mainWait, raceResult, okSeen, cache,
                   detections, calls, callFn, lastReturn>>
    /\ RaceOnly

\* GcpInstance.identify_metadata: getaddrinfo returns or raises gaierror.
\* None unless an AF_INET answer is 169.254.169.254; else aiocurl's first
\* _curl_one follows with no suspension in between
DnsEnd(answer) ==
    /\ mainPc \in {"waiting", "shutdown"}
    /\ tpc["gcp"] = "resolve"
    /\ IF answer # "metadata"
       THEN /\ Finished("gcp", "none")
            /\ ready' = ready \o <<Handle("cb", "gcp")>>
            /\ UNCHANGED attempts
       ELSE /\ tpc' = [tpc EXCEPT !["gcp"] = "request"]
            /\ attempts' = [attempts EXCEPT !["gcp"] = @ + 1]
            /\ UNCHANGED <<tres, firstOk, ready>>
    /\ UNCHANGED <<dmi, retries, dnsLookups, cancelReq, ntodo, timers, doneq,
                   mainPc, awaited, mainWait, raceResult, okSeen, cache,
                   detections, calls, callFn, lastReturn>>
    /\ RaceOnly

\* mutant: the token that answers AWS's probe is kept for the descriptor
TokenKeptByProbe(p, outcome, issued) ==
    IF p = "aws" /\ outcome = "ok" THEN now ELSE issued

\* the metadata token the process holds once a probe's request has ended:
\* AwsInstance.identify_metadata prints the answer to PUT api/token and drops
\* it, the other probes do not bind the answer at all
TokenAfterProbe(p, outcome, issued) == issued

\* the blocking _curl_one call of task p returns or raises (aiocurl's try)
RequestEnd(p, outcome) ==
    /\ mainPc \in {"waiting", "shutdown"}
    /\ tpc[p] = "request"
    /\ IF outcome = "ok"
       THEN /\ Finished(p, "cls")
            /\ ready' = ready \o <<Handle("cb", p)>>
            /\ UNCHANGED timers
       ELSE IF RaisesAtOnce(outcome)
       THEN /\ Finished(p, MetadataHandler(p, outcome))
            /\ ready' = ready \o <<Handle("cb", p)>>
            /\ UNCHANGED timers
       ELSE \* await asyncio.sleep(retry_interval): the task suspends
            /\ tpc' = [tpc EXCEPT ![p] = "sleep"]
            /\ timers' = Append(timers, p)
            /\ UNCHANGED <<tres, firstOk, ready>>
    /\ okSeen' = IF outcome = "ok" THEN okSeen \cup {p} ELSE okSeen
    /\ tokIssued' = TokenAfterProbe(p, outcome, tokIssued)
    /\ UNCHANGED <<dmi, retries, attempts, dnsLookups, cancelReq,
                   ntodo, doneq, mainPc, awaited, mainWait, raceResult, cache,
                   detections, calls, callFn, lastReturn>>
    /\ UNCHANGED <<now, tokTime, ticks, fetches, lastMeta>>
    /\ UNCHANGED <<curlVars, bootVars, diskVars, ioVars, objVars>>

\* the task resumes after asyncio.sleep: CancelledError if cancel() was
\* called on it, else retries += 1 and either re-raise or the next request.
\* err is the exception of the attempt before the sleep; nothing reads its
\* kind before it is re-raised here, so the kind is drawn here.
TaskWake(p, err) ==
    /\ Runs(Handle("step", p))
    /\ tpc[p] = "sleep"
    /\ ntodo' = ntodo - 1
    /\ IF cancelReq[p] # "no"
       THEN /\ Finished(p, "cancelled")
            /\ ready' = Tail(ready) \o <<Handle("cb", p)>>
            /\ UNCHANGED <<retries, attempts>>
       ELSE IF Exhausted(retries[p] + 1, MaxRetries)
       THEN /\ Finished(p, MetadataHandler(p, err))
            /\ ready' = Tail(ready) \o <<Handle("cb", p)>>
            /\ retries' = [retries EXCEPT ![p] = @ + 1]
            /\ UNCHANGED attempts
       ELSE /\ tpc' = [tpc EXCEPT ![p] = "request"]
            /\ retries' = [retries EXCEPT ![p] = @ + 1]
            /\ attempts' = [attempts EXCEPT ![p] = @ + 1]
            /\ ready' = Tail(ready)
            /\ UNCHANGED <<tres, firstOk>>
    /\ UNCHANGED <<dmi, dnsLookups, cancelReq, timers, doneq,
                   mainPc, awaited, mainWait, raceResult, okSeen, cache,
                   detections, calls, callFn, lastReturn>>
    /\ RaceOnly

\* as_completed's _on_completion: the finished task enters the done queue
\* and the race coroutine, if it waits on the queue, is queued to resume
RunDoneCb(p) ==
    /\ Runs(Handle("cb", p))
    /\ doneq' = Append(doneq, p)
    /\ ready' = Tail(ready) \o
                (IF mainWait THEN <<Handle("main", "-")>> ELSE <<>>)
    /\ mainWait' = FALSE
    /\ ntodo' = ntodo - 1
    /\ UNCHANGED <<dmi, tpc, tres, retries, attempts,
                   dnsLookups, cancelReq, timers, mainPc, awaited, raceResult, firstOk, okSeen,
                   cache, detections, calls, callFn, lastReturn>>
    /\ RaceOnly

\* mutant: the last finished task with a result or an exception decides
LastDecisive(q, i) ==
    LET S == {j \in i..Len(q) : tres[q[j]] \in {"cls", "exc"}}
    IN IF S = {} THEN 0 ELSE CHOOSE j \in S : \A k \in S : k <= j

\* index of the first task in q whose await ends the for loop of
\* identify_cloud_async: a truthy result or an exception (0: none does)
RECURSIVE FirstDecisive(_, _)
FirstDecisive(q, i) ==
    IF i > Len(q) THEN 0
    ELSE IF tres[q[i]] \in {"cls", "exc"} THEN i
    ELSE FirstDecisive(q, i + 1)

\* the result identify_cloud_async takes from the task it awaited
Selected(f) == IF tres[f] = "cls" THEN f ELSE "raised"

\* mutant: the other tasks are left running
CancelNone(f) == cancelReq

\* Task.cancel() on every task still pending: by identify_cloud_async's own
\* loop after a truthy result ("race"), by asyncio.run's _cancel_all_tasks
\* when the coroutine ended in an exception ("runner")
CancelOthers(f) ==
    [p \in Providers |->
        IF tpc[p] = "done" THEN cancelReq[p]
        ELSE IF tres[f] = "cls" THEN "race" ELSE "runner"]

\* a cancelled task is queued to take its CancelledError, unless its next
\* step is queued already
RECURSIVE CancelSteps(_, _)
CancelSteps(order, queued) ==
    IF order = <<>> THEN <<>>
    ELSE (IF tpc[Head(order)] # "done" /\ Handle("step", Head(order)) \notin queued
          THEN <<Handle("step", Head(order))>> ELSE <<>>)
         \o CancelSteps(Tail(order), queued)

\* the race coroutine resumes (identify_cloud_async's for loop): it awaits
\* the finished tasks in completion order until one gives a truthy result
\* or raises, or until all four have been awaited
MainWake ==
    /\ Runs(Handle("main", "-"))
    /\ mainPc = "waiting"
    /\ ntodo' = ntodo - 1
    /\ LET i == FirstDecisive(doneq, 1) IN
       IF i > 0
       THEN /\ raceResult' = Selected(doneq[i])
            /\ cancelReq' = CancelOthers(doneq[i])
            /\ awaited' = awaited + i
            /\ doneq' = SubSeq(doneq, i + 1, Len(doneq))
            /\ ready' = Tail(ready) \o CancelSteps(TaskOrder, SeqToSet(ready))
            /\ timers' = <<>>
            /\ mainPc' = "shutdown"
            /\ mainWait' = FALSE
       ELSE /\ awaited' = awaited + Len(doneq)
            /\ doneq' = <<>>
            /\ ready' = Tail(ready)
            /\ IF awaited' = Cardinality(Providers)
               THEN /\ raceResult' = "none"
                    /\ mainPc' = "shutdown"
                    /\ mainWait' = FALSE
               ELSE /\ mainWait' = TRUE
                    /\ UNCHANGED <<raceResult, mainPc>>
            /\ UNCHANGED <<cancelReq, timers>>
    /\ UNCHANGED <<dmi, tpc, tres, retries, attempts,
                   dnsLookups, firstOk, okSeen, cache, detections, calls, callFn,
                   lastReturn>>
    /\ RaceOnly

\* asyncio.run has finished every task and closes the loop; identify_cloud
\* returns (and functools.cache stores the value) or raises, to the wrapper
\* fn that called it
IdentifyReturn(fn) ==
    /\ mainPc = "shutdown"
    /\ \A p \in Providers : tpc[p] = "done"
    /\ mainPc' = "idle"
    /\ cache' = CacheAfter(cache, raceResult)
    /\ lastReturn' = IF raceResult = "raised" THEN "raised"
                     ELSE Wrapper(fn, raceResult)
    /\ callFn' = fn
    /\ ready' = <<>>
    /\ ntodo' = 0
    /\ doneq' = <<>>
    /\ UNCHANGED <<dmi, tpc, tres, retries, attempts,
                   dnsLookups, cancelReq, timers, mainWait, awaited,
                   raceResult, firstOk, okSeen, detections, calls>>
    /\ RaceOnly

RaceNext ==
    \/ \E fn \in Functions : CallCached(fn)
    \/ CallDetect
    \/ LoopIterate
    \/ \E p \in Providers : RunTimer(p)
    \/ \E p \in Providers : TaskStart(p)
    \/ \E a \in DnsAnswers : DnsEnd(a)
    \/ \E p \in Providers, o \in Outcomes : RequestEnd(p, o)
    \/ \E p \in Providers, err \in Retryable : TaskWake(p, err)
    \/ \E p \in Providers : RunDoneCb(p)
    \/ MainWake
    \/ \E fn \in Functions : IdentifyReturn(fn)


\* ==================================================================
\* curl / aiocurl: one call, attempt by attempt. The two functions have
\* the same body; aiocurl awaits asyncio.sleep where curl calls time.sleep.
\* ==================================================================
\* the max_retries arguments tried
RetryParams == 1..MaxRetries

CurlInit ==
    /\ cPc = "idle"
    /\ cAsync = FALSE
    /\ cMax = MaxRetries
    /\ cRetries = 0
    /\ cAttempts = 0
    /\ cSleeps = 0
    /\ cResult = "-"
    /\ cErr = "-"

\* curl(url, ..., max_retries=m) / aiocurl(...): retries = 0, first request
CurlCall(async, m) ==
    /\ cPc \in {"idle", "done"}
    /\ cPc' = "request"
    /\ cAsync' = async
    /\ cMax' = m
    /\ cRetries' = 0
    /\ cAttempts' = 1
    /\ cSleeps' = 0
    /\ cResult' = "-"
    /\ cErr' = "-"
    /\ CurlOnly

\* _curl_one returns or raises inside the try
CurlAttemptEnd(outcome) ==
    /\ cPc = "request"
    /\ IF outcome = "ok"
       THEN /\ cPc' = "done"
            /\ cResult' = "body"
            /\ cErr' = "-"
            /\ UNCHANGED cSleeps
       ELSE IF RaisesAtOnce(outcome)
       THEN /\ cPc' = "done"
            /\ cResult' = "raised"
            /\ cErr' = outcome
            /\ UNCHANGED cSleeps
       ELSE /\ cPc' = "sleep"
            /\ cSleeps' = cSleeps + 1
            /\ cErr' = outcome
            /\ UNCHANGED cResult
    /\ UNCHANGED <<cAsync, cMax, cRetries, cAttempts>>
    /\ CurlOnly

\* after the sleep: retries += 1; raise if retries >= max_retries, else
\* the next request
CurlAfterSleep ==
    /\ cPc = "sleep"
    /\ cRetries' = cRetries + 1
    /\ IF Exhausted(cRetries + 1, cMax)
       THEN /\ cPc' = "done"
            /\ cResult' = "raised"
            /\ UNCHANGED cAttempts
       ELSE /\ cPc' = "request"
            /\ cAttempts' = cAttempts + 1
            /\ UNCHANGED cResult
    /\ UNCHANGED <<cAsync, cMax, cSleeps, cErr>>
    /\ CurlOnly

CurlNext ==
    \/ \E async \in BOOLEAN, m \in RetryParams : CurlCall(async, m)
    \/ \E o \in Outcomes : CurlAttemptEnd(o)
    \/ CurlAfterSleep

\* ==================================================================
\* AwsInstance: the metadata token gate of __instance_metadata
\* ==================================================================
\* clock advances between calls, seconds
Deltas == {60, 80, 120, METADATA_TOKEN_TTL - 320}

NoMeta == [held |-> FALSE, elapsed |-> -1, refreshed |-> FALSE,
           fetched |-> FALSE, age |-> -1]

\* AwsInstance.__init__: no token, _metadata_token_time = now
TokenInit ==
    /\ now = 0
    /\ tokTime = 0
    /\ tokIssued = -1
    /\ ticks = 0
    /\ fetches = 0
    /\ lastMeta = NoMeta

Tick(d) ==
    /\ ticks < MaxTicks
    /\ ticks' = ticks + 1
    /\ now' = now + d
    /\ UNCHANGED <<tokTime, tokIssued, fetches, lastMeta>>
    /\ TokenOnly

\* __instance_metadata's gate: no token yet, or
\* int(now - _metadata_token_time) >= METADATA_TOKEN_TTL - 120
NeedsRefresh(held, t, stamp) ==
    \/ ~held
    \/ t - stamp >= METADATA_TOKEN_TTL - TokenMargin

\* __instance_metadata(path): the gate, __refresh_metadata_token when it
\* says so (it sets _metadata_token_time first, then asks for the token;
\* refreshOk: its curl returns a token, else it raises and the call ends
\* there), then the fetch carrying the held token
InstanceMetadata(refreshOk) ==
    /\ fetches < MaxFetches
    /\ fetches' = fetches + 1
    /\ LET held == tokIssued >= 0
           refresh == NeedsRefresh(held, now, tokTime)
           elapsed == IF held THEN now - tokIssued ELSE -1
       IN IF refresh
          THEN /\ tokTime' = now
               /\ tokIssued' = IF refreshOk THEN now ELSE tokIssued
               /\ lastMeta' = [held |-> held, elapsed |-> elapsed,
                               refreshed |-> TRUE, fetched |-> refreshOk,
                               age |-> IF refreshOk THEN 0 ELSE -1]
          ELSE /\ lastMeta' = [held |-> held, elapsed |-> elapsed,
                               refreshed |-> FALSE, fetched |-> TRUE,
                               age |-> now - tokIssued]
               /\ UNCHANGED <<tokTime, tokIssued>>
    /\ UNCHANGED <<now, ticks>>
    /\ TokenOnly

TokenNext ==
    \/ \E d \in Deltas : Tick(d)
    \/ \E ok \in BOOLEAN : InstanceMetadata(ok)

\* ==================================================================
\* The boot steps that ask for the cloud instance
\* ==================================================================
Steps == {"configure", "post_start", "user_data", "estimate_bandwidth"}

\* what cloud_instance.user_data holds: nothing, the settings as JSON, as
\* YAML that is not JSON, or as the x-scylla/json or x-scylla/yaml part of a
\* MIME multipart message, text that does not parse, or the metadata fetch
\* raises
RawUserData ==
    {"empty", "json", "yaml", "mime_json", "mime_yaml", "garbage",
     "fetch_error"}

\* the texts that hold settings
Documents == {"json", "yaml", "mime_json", "mime_yaml"}

\* UserData.instance_user_data, lines 36-42: the payload of the x-scylla part
\* of a multipart message replaces the text
Payload(raw) ==
    IF raw = "mime_json" THEN "json"
    ELSE IF raw = "mime_yaml" THEN "yaml"
    ELSE raw

\* yaml.safe_load: JSON settings are YAML too; a MIME message is not
YamlLoads(text) == IF text \in {"json", "yaml"} THEN "parsed" ELSE "raised"

\* json.loads
JsonLoads(text) == IF text = "json" THEN "parsed" ELSE "raised"

BootInit ==
    /\ bDetected \in Providers \cup {"none"}
    /\ bStep \in Steps
    /\ bRaw \in RawUserData
    /\ bPc = "start"
    /\ bCloud = "unset"
    /\ bUserData = "unset"
    /\ bOutcome = "running"
    /\ bWarned = FALSE
    /\ bBandwidth = "-"
    /\ bScript \in (IF bRaw \in Documents THEN BOOLEAN ELSE {FALSE})
    /\ bRan = FALSE

\* mutant: an AWS instance is assumed when nothing was detected
get_cloud_instance_or_default(v) == IF v \in Providers THEN v ELSE "aws"

\* get_cloud_instance(): an instance of the detected class, or None
get_cloud_instance(v) == Wrapper("get_cloud_instance", v)

\* the cloud_instance property of UserData and ScyllaMachineImagePostStart:
\* if not self._cloud_instance: self._cloud_instance = get_cloud_instance()
cloud_instance(cur, v) ==
    IF cur \in {"unset", "none"} THEN get_cloud_instance(v) ELSE cur

\* UserData.instance_user_data: any exception on the way (no instance, the
\* fetch, the parse) is caught, a warning is logged and {} is used
instance_user_data(cloud, raw) ==
    IF cloud = "none" \/ raw = "fetch_error"
    THEN [data |-> "empty", warned |-> TRUE]
    ELSE IF Payload(raw) = "empty" THEN [data |-> "empty", warned |-> FALSE]
    ELSE IF YamlLoads(Payload(raw)) = "raised"
    THEN [data |-> "empty", warned |-> TRUE]
    ELSE [data |-> "parsed", warned |-> FALSE]

\* ScyllaMachineImagePostStart.instance_user_data:
\* json.loads(raw_user_data) if raw_user_data.strip() else {}; an exception
\* is caught and logged, and _instance_user_data stays None
post_start_user_data(cloud, raw) ==
    IF cloud = "none" \/ raw = "fetch_error"
    THEN [data |-> "none", warned |-> TRUE]
    ELSE IF raw = "empty" THEN [data |-> "empty", warned |-> FALSE]
    ELSE IF JsonLoads(raw) = "raised"
    THEN [data |-> "none", warned |-> TRUE]
    ELSE [data |-> "parsed", warned |-> FALSE]

\* ScyllaMachineImageConfigurator.configure, first statement:
\* updated_ami_conf_defaults calls self.cloud_instance.private_ipv4(), an
\* uncaught AttributeError when there is no instance
ConfigureDefaults ==
    /\ bStep = "configure"
    /\ bPc = "start"
    /\ bCloud' = cloud_instance(bCloud, bDetected)
    /\ IF bCloud' = "none"
       THEN bPc' = "done" /\ bOutcome' = "error"
       ELSE bPc' = "user_data" /\ UNCHANGED bOutcome
    /\ UNCHANGED <<bDetected, bStep, bRaw, bUserData, bWarned, bBandwidth,
                   bScript, bRan>>
    /\ BootOnly

\* configure, the rest: the settings are read from instance_user_data
ConfigureUserData ==
    /\ bStep = "configure"
    /\ bPc = "user_data"
    /\ LET ud == instance_user_data(bCloud, bRaw) IN
        /\ bUserData' = ud.data
        /\ bWarned' = ud.warned
    /\ bPc' = "done"
    /\ bOutcome' = "completed"
    /\ UNCHANGED <<bDetected, bStep, bRaw, bCloud, bBandwidth, bScript, bRan>>
    /\ BootOnly

\* ScyllaMachineImagePostStart.run_post_start_script:
\* self.instance_user_data.get("post_start_script"), an uncaught
\* AttributeError when instance_user_data is None; a script that is there is
\* decoded and handed to subprocess.run, whose failure is caught and logged
RunPostStartScript ==
    /\ bStep = "post_start"
    /\ bPc = "start"
    /\ bCloud' = cloud_instance(bCloud, bDetected)
    /\ LET ud == post_start_user_data(bCloud', bRaw) IN
        /\ bUserData' = ud.data
        /\ bWarned' = ud.warned
        /\ bOutcome' = IF ud.data = "none" THEN "error" ELSE "completed"
        /\ bRan' = (ud.data = "parsed" /\ bScript)
    /\ bPc' = "done"
    /\ UNCHANGED <<bDetected, bStep, bRaw, bBandwidth, bScript>>
    /\ BootOnly

\* a caller reads UserData.instance_user_data
ReadUserData ==
    /\ bStep = "user_data"
    /\ bPc = "start"
    /\ bCloud' = cloud_instance(bCloud, bDetected)
    /\ LET ud == instance_user_data(bCloud', bRaw) IN
        /\ bUserData' = ud.data
        /\ bWarned' = ud.warned
    /\ bPc' = "done"
    /\ bOutcome' = "completed"
    /\ UNCHANGED <<bDetected, bStep, bRaw, bBandwidth, bScript, bRan>>
    /\ BootOnly

\* estimate_streaming_bandwidth(): get_cloud_instance(), then the is_ec2 /
\* is_oci / is_azure branches; net_bw stays 0 when none is taken
EstimateStreamingBandwidth ==
    /\ bStep = "estimate_bandwidth"
    /\ bPc = "start"
    /\ bCloud' = get_cloud_instance(bDetected)
    /\ bBandwidth' = IF bDetected \in {"aws", "oci", "azure"}
                     THEN "from_table" ELSE "0"
    /\ bPc' = "done"
    /\ bOutcome' = "completed"
    /\ UNCHANGED <<bDetected, bStep, bRaw, bUserData, bWarned, bScript, bRan>>
    /\ BootOnly

BootNext ==
    \/ ConfigureDefaults
    \/ ConfigureUserData
    \/ RunPostStartScript
    \/ ReadUserData
    \/ EstimateStreamingBandwidth

\* ==================================================================
\* Disk enumeration: the four CloudInstance variants classify the names
\* of /dev against the partitions mounted at "/". Names and paths are
\* sequences of characters, so that the regular expressions, startswith,
\* removeprefix and replace of the code are computed character by character.
\* ==================================================================
\* names found in /dev
nvme0n1 == <<"n", "v", "m", "e", "0", "n", "1">>
nvme1n1 == <<"n", "v", "m", "e", "1", "n", "1">>
nvme2n1 == <<"n", "v", "m", "e", "2", "n", "1">>
nvme0n1p1 == <<"n", "v", "m", "e", "0", "n", "1", "p", "1">>
sda == <<"s", "d", "a">>
sda1 == <<"s", "d", "a", "1">>
sdb == <<"s", "d", "b">>
sdb1 == <<"s", "d", "b", "1">>
sdc == <<"s", "d", "c">>
sdf == <<"s", "d", "f">>
xvda == <<"x", "v", "d", "a">>
xvda1 == <<"x", "v", "d", "a", "1">>
xvdb == <<"x", "v", "d", "b">>
xvdf == <<"x", "v", "d", "f">>

\* "/dev/", and the path of a name of /dev (os.path.join("/dev/", x))
DevDir == <<"/", "d", "e", "v", "/">>
Dev(x) == DevDir \o x

\* psutil's device name of a root file system it cannot resolve
DevRoot == Dev(<<"r", "o", "o", "t">>)

Digits == {"0", "1", "2", "3", "4", "5", "6", "7", "8", "9"}

\* the characters of the class [b-z]
LowerBToZ == {"b", "c", "d", "e", "f", "g", "h", "i", "j", "k", "l", "m", "n",
              "o", "p", "q", "r", "s", "t", "u", "v", "w", "x", "y", "z"}

\* str.startswith
StartsWith(s, pre) == Len(pre) <= Len(s) /\ SubSeq(s, 1, Len(pre)) = pre

\* str.removeprefix
RemovePrefix(s, pre) ==
    IF StartsWith(s, pre) THEN SubSeq(s, Len(pre) + 1, Len(s)) ELSE s

\* the index after the longest run of characters of class cls from index i
RECURSIVE SkipClass(_, _, _)
SkipClass(s, i, cls) ==
    IF i <= Len(s) /\ s[i] \in cls THEN SkipClass(s, i + 1, cls) ELSE i

\* re.match(r"(nvme\d+)n\d+$", x): the end of group 1, or 0 for no match
NvmeGroupEnd(x) ==
    LET pre == <<"n", "v", "m", "e">>
        a == Len(pre) + 1
        b == SkipClass(x, a, Digits)
        c == SkipClass(x, b + 1, Digits)
    IN IF /\ StartsWith(x, pre)
          /\ b > a
          /\ b <= Len(x) /\ x[b] = "n"
          /\ c > b + 1
          /\ c = Len(x) + 1
       THEN b - 1 ELSE 0

\* nvme_re = re.compile(r"nvme\d+n\d+$"); nvme_re.match(x)
NvmeReMatch(x) == NvmeGroupEnd(x) > 0

\* disk_re = re.compile(r"/dev/sd[b-z]+$"); disk_re.match(path)
DiskReMatch(path) ==
    LET pre == <<"/", "d", "e", "v", "/", "s", "d">>
        a == Len(pre) + 1
    IN /\ StartsWith(path, pre)
       /\ a <= Len(path)
       /\ SkipClass(path, a, LowerBToZ) = Len(path) + 1

\* glob.glob("/dev/sd*") over the names of /dev
GlobSd(listing) == {Dev(x) : x \in {y \in listing : StartsWith(y, <<"s", "d">>)}}

\* is_in_root_devs(x, root_devs)
is_in_root_devs(x, root_devs) ==
    \E root_dev \in root_devs : StartsWith(root_dev, Dev(x))


\* the strings the AWS device mapping is matched against
SD == <<"s", "d">>
XVD == <<"x", "v", "d">>
ROOT == <<"r", "o", "o", "t">>
EPHEMERAL == <<"e", "p", "h", "e", "m", "e", "r", "a", "l">>
EBS == <<"e", "b", "s">>
AMI == <<"a", "m", "i">>

\* the whole disk a partition of the machine lies on
DiskNames == {nvme0n1, nvme1n1, nvme2n1, sda, sdb, sdc, sdf, xvda, xvdb, xvdf}
DiskOf(part) ==
    CHOOSE d \in DiskNames : StartsWith(part, d)

\* the empty disk set, and the outcome of an enumeration that raised
NoDisks == [err |-> FALSE, root |-> {}, ephemeral |-> {}, persistent |-> {},
            swap |-> {}, ami |-> {}]
Raised == [NoDisks EXCEPT !.err = TRUE]

\* [x for x in psutil.disk_partitions() if x.mountpoint == "/"], their
\* device names: the real partitions, or /dev/root where the kernel names
\* the root file system so
root_dev_candidates ==
    IF dAlias THEN {DevRoot} ELSE {Dev(r) : r \in dRoots}

\* _non_root_nvmes of GcpInstance and OciInstance: every root candidate is
\* taken, whatever their number
NonRootNvmes(root_devs) ==
    [root |-> root_devs,
     ephemeral |-> {x \in {y \in dListing : NvmeReMatch(y)} :
                        ~is_in_root_devs(x, root_devs)}]

\* mutant: the swap device is not left out of the persistent disks
NonRootDisksWithSwap(root_devs, swap_dev) ==
    {RemovePrefix(x, DevDir) :
        x \in {y \in {z \in GlobSd(dListing) : DiskReMatch(z)} :
                  ~is_in_root_devs(RemovePrefix(y, DevDir), root_devs)}}

\* _non_root_disks of GcpInstance and OciInstance; AzureInstance's also
\* leaves out the swap device (swap_dev: its path, <<>> for None)
NonRootDisks(root_devs, swap_dev) ==
    {RemovePrefix(x, DevDir) :
        x \in {y \in {z \in GlobSd(dListing) : DiskReMatch(z)} :
                  /\ ~is_in_root_devs(RemovePrefix(y, DevDir), root_devs)
                  /\ y # swap_dev}}

\* GcpInstance.os_disks
GcpOsDisks ==
    LET nvmes == NonRootNvmes(root_dev_candidates)
    IN [NoDisks EXCEPT !.root = nvmes.root,
                       !.ephemeral = nvmes.ephemeral,
                       !.persistent = NonRootDisks(root_dev_candidates, <<>>)]

\* OciInstance: _non_root_nvmes and _non_root_disks, as get_disk_config,
\* get_local_disks and get_remote_disks read them
OciDisks ==
    LET nvmes == NonRootNvmes(root_dev_candidates)
    IN [NoDisks EXCEPT !.root = nvmes.root,
                       !.ephemeral = nvmes.ephemeral,
                       !.persistent = NonRootDisks(root_dev_candidates, <<>>)]

\* AzureInstance._get_swap_dev: os.path.realpath of the symlink
\* /dev/disk/cloud/azure_resource when it exists, else None
get_swap_dev == dSwap

\* AzureInstance/AwsInstance._non_root_nvmes: len(root_dev_candidates) != 1
AmbiguousRoot(candidates) == Cardinality(candidates) # 1

\* AzureInstance.os_disks (_non_root_nvmes raises on an ambiguous root)
AzureOsDisks ==
    IF AmbiguousRoot(root_dev_candidates) THEN Raised
    ELSE LET nvmes == NonRootNvmes(root_dev_candidates)
             swap_dev == get_swap_dev
         IN [NoDisks EXCEPT
                !.root = nvmes.root,
                !.ephemeral = nvmes.ephemeral,
                !.persistent = NonRootDisks(root_dev_candidates, swap_dev),
                !.swap = IF swap_dev # <<>>
                         THEN {RemovePrefix(swap_dev, DevDir)} ELSE {}]

\* AwsInstance.__filter_nvmes(dev, dev_type): the model string of the
\* device's controller tells EBS from instance store
filter_nvmes(dev, dev_type) ==
    LET g == NvmeGroupEnd(dev)
    IN /\ g > 0
       /\ IF dev_type = "ephemeral"
          THEN SubSeq(dev, 1, g) \notin dEbs
          ELSE SubSeq(dev, 1, g) \in dEbs

\* AwsInstance._non_root_nvmes, for a single root candidate: /dev/root is
\* resolved with findmnt; only the EBS names are filtered by the root
AwsNonRootNvmes ==
    LET cand == CHOOSE c \in root_dev_candidates : TRUE
        root_dev == IF cand = DevRoot
                    THEN Dev(CHOOSE r \in dRoots : TRUE) ELSE cand
    IN [root |-> {root_dev},
        ephemeral |-> {x \in dListing : filter_nvmes(x, "ephemeral")},
        ebs |-> {x \in {y \in dListing : filter_nvmes(y, "ebs")} :
                    ~StartsWith(root_dev, Dev(x))}]

\* devname = re.compile(r"^\D+"); devname.match(dev).group(), <<>> for no
\* match
LeadingNonDigits(dev) ==
    SubSeq(dev, 1, SkipClass(dev, 1, {dev[i] : i \in 1..Len(dev)} \ Digits) - 1)

\* str.replace("sd", "xvd")
RECURSIVE ReplaceSd(_)
ReplaceSd(s) ==
    IF s = <<>> THEN <<>>
    ELSE IF StartsWith(s, SD) THEN XVD \o ReplaceSd(SubSeq(s, 3, Len(s)))
    ELSE <<Head(s)>> \o ReplaceSd(Tail(s))

\* AwsInstance.__xenify(devname): the mapping's device name, sd -> xvd
xenify(entry) == ReplaceSd(entry.dev)

\* AwsInstance.__device_exists
device_exists(dev) ==
    LET path == IF SubSeq(dev, 1, 4) # SubSeq(DevDir, 1, 4) THEN Dev(dev) ELSE dev
    IN RemovePrefix(path, DevDir) \in dListing

\* the truth value of a dict: it has a key
DictTruthy(d) == DOMAIN d # {}

\* AwsInstance.__populate_disks: `if t == "ephemeral" and nvmes_present`
SkipEphemeralMapping(nvmes_present) == DictTruthy(nvmes_present)

\* the devices the loop of __populate_disks adds to bucket t
MappedInto(t, nvmes_present) ==
    {xenify(e) : e \in {m \in dDevmap :
        /\ LeadingNonDigits(m.key) = t
        /\ ~(t = EPHEMERAL /\ SkipEphemeralMapping(nvmes_present))
        /\ device_exists(xenify(m))}}

\* AwsInstance.__init__ -> __populate_disks (the mapping fetch may raise,
\* _non_root_nvmes raises on an ambiguous root)
AwsPopulateDisks ==
    IF dDevmapErr \/ AmbiguousRoot(root_dev_candidates) THEN Raised
    ELSE LET nvmes_present == AwsNonRootNvmes
         IN [err |-> FALSE,
             root |-> nvmes_present.root \cup MappedInto(ROOT, nvmes_present),
             ephemeral |-> nvmes_present.ephemeral
                             \cup MappedInto(EPHEMERAL, nvmes_present),
             persistent |-> nvmes_present.ebs \cup MappedInto(EBS, nvmes_present),
             swap |-> {},
             ami |-> MappedInto(AMI, nvmes_present)]

\* the disk set of the instance's provider
OsDisks(p) ==
    CASE p = "aws" -> AwsPopulateDisks
      [] p = "gcp" -> GcpOsDisks
      [] p = "azure" -> AzureOsDisks
      [] OTHER -> OciDisks

\* mutant: the OS's count alone, the metadata is not consulted
GcpOsCountOnly == Cardinality(GcpOsDisks.ephemeral)

\* nvme_disk_count of GcpInstance: the smaller of the OS's count and the
\* count of NVME disks in the metadata's disks resource (0 when that
\* cannot be fetched or parsed)
GcpNvmeDiskCount ==
    LET count_os_disks == Cardinality(GcpOsDisks.ephemeral)
        count_metadata_nvme_disks == IF dMdCount < 0 THEN 0 ELSE dMdCount
    IN IF count_os_disks < count_metadata_nvme_disks
       THEN count_os_disks ELSE count_metadata_nvme_disks

\* mutant: the count comes from a table keyed by the instance size
AzureSizeTable ==
    IF dSize = "Standard_L16s_v2" THEN 2 ELSE 4

\* nvme_disk_count of AzureInstance: the OS's count, 0 when enumeration
\* raises
AzureNvmeDiskCount ==
    IF AzureOsDisks.err THEN 0 ELSE Cardinality(AzureOsDisks.ephemeral)

\* nvme_disk_count of OciInstance
OciNvmeDiskCount == Cardinality(OciDisks.ephemeral)

\* nvme_disk_count of AwsInstance: len(non_root_disks()) over _disks
AwsNvmeDiskCount == Cardinality(dDisks.ephemeral \cup dDisks.persistent)

nvme_disk_count(p) ==
    CASE p = "aws" -> AwsNvmeDiskCount
      [] p = "gcp" -> GcpNvmeDiskCount
      [] p = "azure" -> AzureNvmeDiskCount
      [] OTHER -> OciNvmeDiskCount

\* get_local_disks of the four variants: the set returned, err when it
\* raises (OciInstance returns paths, the others names)
get_local_disks(p) ==
    CASE p = "aws" -> [err |-> FALSE, disks |-> dDisks.ephemeral]
      [] p = "gcp" -> [err |-> FALSE, disks |-> GcpOsDisks.ephemeral]
      [] p = "azure" -> [err |-> AzureOsDisks.err, disks |-> AzureOsDisks.ephemeral]
      [] OTHER -> [err |-> FALSE, disks |-> {Dev(x) : x \in OciDisks.ephemeral}]

\* --- the machines the enumeration is run on
\* the partitions that can hold the root file system, and the other disks
\* the machine can have
RootParts(p) == IF p = "aws" THEN {nvme0n1p1, xvda1} ELSE {nvme0n1p1, sda1, sdb1}
ExtraDisks(p) ==
    IF p = "aws" THEN {nvme0n1, nvme1n1, nvme2n1, xvdb, xvdf}
    ELSE {nvme0n1, nvme1n1, nvme2n1, sda, sdb, sdc}

\* the NVMe controllers of a listing (/sys/class/nvme/<name>)
Controllers(listing) ==
    {SubSeq(x, 1, NvmeGroupEnd(x)) : x \in {y \in listing : NvmeReMatch(y)}}

\* meta-data/block-device-mapping: the keys and the legacy device name
\* each one maps to
MapAmi == [key |-> AMI, dev |-> sda1]
MapRoot == [key |-> ROOT, dev |-> Dev(sda1)]
MapEbs1 == [key |-> EBS \o <<"1">>, dev |-> sdf]
MapEphemeral0 == [key |-> EPHEMERAL \o <<"0">>, dev |-> sdb]

InstanceSizes == {"Standard_L16s_v2", "Standard_L32s_v2"}

Queries == {"os_disks", "nvme_disk_count", "get_local_disks"}

\* no instance yet; dProv = "-": no disk enumeration in this run
DiskInit ==
    /\ dRoots \in (IF dProv = "-" THEN {{}} ELSE SUBSET RootParts(dProv))
    /\ dAlias \in (IF Cardinality(dRoots) = 1 THEN BOOLEAN ELSE {FALSE})
    /\ dListing \in (IF dProv = "-" THEN {{}}
                     ELSE {dRoots \cup {DiskOf(r) : r \in dRoots} \cup S :
                            S \in SUBSET ExtraDisks(dProv)})
    /\ dEbs \in (IF dProv = "aws" THEN SUBSET Controllers(dListing) ELSE {{}})
    /\ dSwap \in (IF dProv = "azure"
                  THEN {<<>>} \cup {Dev(x) : x \in {y \in {sdb, sdc} :
                            /\ y \in dListing
                            /\ y \notin {DiskOf(r) : r \in dRoots}}}
                  ELSE {<<>>})
    /\ dMdCount \in (IF dProv = "gcp" THEN -1..MaxMetadataDisks ELSE {0})
    /\ dDevmapErr \in (IF dProv = "aws" THEN BOOLEAN ELSE {FALSE})
    /\ dDevmap \in (IF dProv = "aws" /\ ~dDevmapErr
                    THEN {{MapAmi, MapRoot} \cup X :
                            X \in SUBSET {MapEbs1, MapEphemeral0}}
                    ELSE {{}})
    /\ dSize \in (IF dProv = "azure" THEN InstanceSizes ELSE {"-"})
    /\ dPc = "new"
    /\ dDisks = NoDisks
    /\ dCount = -1
    /\ dLocal = [err |-> FALSE, disks |-> {}]
    /\ dAsked = {}

\* the instance is constructed: AwsInstance.__init__ populates _disks and
\* may raise; the other variants read nothing of the disks yet
Construct ==
    /\ dProv # "-"
    /\ dPc = "new"
    /\ IF dProv = "aws"
       THEN /\ dDisks' = AwsPopulateDisks
            /\ dPc' = IF dDisks'.err THEN "failed" ELSE "ready"
       ELSE /\ dPc' = "ready"
            /\ UNCHANGED dDisks
    /\ UNCHANGED <<dProv, dRoots, dAlias, dListing, dEbs, dSwap, dMdCount,
                   dDevmap, dDevmapErr, dSize, dCount, dLocal, dAsked>>
    /\ DiskOnly

\* os_disks of GcpInstance and AzureInstance, the two enumerations of
\* OciInstance: the disk set, or the exception
ReadOsDisks ==
    /\ dPc = "ready"
    /\ dProv # "aws"
    /\ "os_disks" \notin dAsked
    /\ dDisks' = OsDisks(dProv)
    /\ dAsked' = dAsked \cup {"os_disks"}
    /\ UNCHANGED <<dProv, dRoots, dAlias, dListing, dEbs, dSwap, dMdCount,
                   dDevmap, dDevmapErr, dSize, dPc, dCount, dLocal>>
    /\ DiskOnly

\* the nvme_disk_count property
NvmeDiskCount ==
    /\ dPc = "ready"
    /\ "nvme_disk_count" \notin dAsked
    /\ dCount' = nvme_disk_count(dProv)
    /\ dAsked' = dAsked \cup {"nvme_disk_count"}
    /\ UNCHANGED <<dProv, dRoots, dAlias, dListing, dEbs, dSwap, dMdCount,
                   dDevmap, dDevmapErr, dSize, dPc, dDisks, dLocal>>
    /\ DiskOnly

\* get_local_disks()
GetLocalDisks ==
    /\ dPc = "ready"
    /\ "get_local_disks" \notin dAsked
    /\ dLocal' = get_local_disks(dProv)
    /\ dAsked' = dAsked \cup {"get_local_disks"}
    /\ UNCHANGED <<dProv, dRoots, dAlias, dListing, dEbs, dSwap, dMdCount,
                   dDevmap, dDevmapErr, dSize, dPc, dDisks, dCount>>
    /\ DiskOnly

DiskNext ==
    \/ Construct
    \/ ReadOsDisks
    \/ NvmeDiskCount
    \/ GetLocalDisks

\* ==================================================================
\* IO presets: lib/scylla_cloud_io_setup.py
\* ==================================================================
\* most local disks of an AWS instance in the model
MaxLocalDisks == 2

\* Python's integers have no width: a number is kept as <<millions, rest>>,
\* 2015342735 is <<2015, 342735>>; Times is the product with a small integer
Times(v, n) == <<v[1] * n + (v[2] * n) \div 1000000, (v[2] * n) % 1000000>>

\* mbs = 1024*1024
mbs == <<1, 48576>>

\* lines 16-20: what def binds the two names to
ModuleNames ==
    [UnsupportedInstanceClassError |-> "function",
     PresetNotFoundError |-> "function"]

\* raise name(): the call is evaluated first. Both names are functions of one
\* positional parameter, and the call without an argument raises TypeError;
\* an exception class would be instantiated and raised
RaiseCall(name) ==
    IF ModuleNames[name] = "function" THEN "TypeError" ELSE name

\* the instance type string of <<class, size>>, which instance_class() and
\* instance_size() split at the dot
instancetype(t) == t[1] \o "." \o t[2]

\* AwsInstance.is_supported_instance_class
AwsSupportedClasses ==
    {"i2", "i3", "i3en", "c5d", "m5d", "m5ad", "r5d", "z1d", "c6gd", "m6gd",
     "r6gd", "x2gd", "im4gn", "is4gen", "i4i", "i4g", "i7i", "i7ie", "i8g",
     "i8ge"}

\* "key" in disk_properties
Has(props, key) == \E kv \in props : kv[1] = key

\* disk_properties[key]
Get(props, key) == (CHOOSE kv \in props : kv[1] = key)[2]

\* aws_io_setup.generate, lines 48-189: the items the chain of tests puts
\* into disk_properties
aws_io_setup_presets(instance, instance_class, instance_size, nr_disks) ==
    IF instance = "i3.large"
    THEN {<<"read_iops", <<0, 111000>>>>,
          <<"read_bandwidth", <<653, 925080>>>>,
          <<"write_iops", <<0, 36800>>>>,
          <<"write_bandwidth", <<215, 66473>>>>}
    ELSE IF instance = "i3.xlarge"
         THEN {<<"read_iops", <<0, 200800>>>>,
               <<"read_bandwidth", <<1185, 106376>>>>,
               <<"write_iops", <<0, 53180>>>>,
               <<"write_bandwidth", <<423, 621267>>>>}
         ELSE IF instance_class = "i3"
              THEN {<<"read_iops", Times(<<0, 411200>>, nr_disks)>>,
                    <<"read_bandwidth", Times(<<2015, 342735>>, nr_disks)>>,
                    <<"write_iops", Times(<<0, 181500>>, nr_disks)>>,
                    <<"write_bandwidth", Times(<<808, 775652>>, nr_disks)>>}
              ELSE IF instance_class = "i3en"
                   THEN IF instance = "i3en.large"
                        THEN {<<"read_iops", <<0, 43315>>>>,
                              <<"read_bandwidth", <<330, 301440>>>>,
                              <<"write_iops", <<0, 33177>>>>,
                              <<"write_bandwidth", <<165, 675008>>>>}
                        ELSE IF instance \in {"i3en.xlarge", "i3en.2xlarge"}
                             THEN {<<"read_iops", Times(<<0, 84480>>, nr_disks)>>,
                                   <<"read_bandwidth", Times(<<666, 894336>>, nr_disks)>>,
                                   <<"write_iops", Times(<<0, 66969>>, nr_disks)>>,
                                   <<"write_bandwidth", Times(<<333, 447168>>, nr_disks)>>}
                             ELSE {<<"read_iops", Times(<<0, 257024>>, nr_disks)>>,
                                   <<"read_bandwidth", Times(<<2043, 674624>>, nr_disks)>>,
                                   <<"write_iops", Times(<<0, 174080>>, nr_disks)>>,
                                   <<"write_bandwidth", Times(<<1024, 458752>>, nr_disks)>>}
                   ELSE IF instance_class = "i2"
                        THEN {<<"read_iops", Times(<<0, 64000>>, nr_disks)>>,
                              <<"read_bandwidth", Times(<<507, 338935>>, nr_disks)>>,
                              <<"write_iops", Times(<<0, 57100>>, nr_disks)>>,
                              <<"write_bandwidth", Times(<<483, 141731>>, nr_disks)>>}
                        ELSE IF instance_class \in {"c6gd", "m6gd", "r6gd", "x2gd"}
                             THEN IF instance_size = "medium"
                                  THEN {<<"read_iops", <<0, 14808>>>>,
                                        <<"read_bandwidth", <<77, 869147>>>>,
                                        <<"write_iops", <<0, 5972>>>>,
                                        <<"write_bandwidth", <<32, 820302>>>>}
                                  ELSE IF instance_size = "large"
                                       THEN {<<"read_iops", <<0, 29690>>>>,
                                             <<"read_bandwidth", <<157, 712240>>>>,
                                             <<"write_iops", <<0, 12148>>>>,
                                             <<"write_bandwidth", <<65, 978069>>>>}
                                       ELSE IF instance_size = "xlarge"
                                            THEN {<<"read_iops", <<0, 59688>>>>,
                                                  <<"read_bandwidth", <<318, 762880>>>>,
                                                  <<"write_iops", <<0, 24449>>>>,
                                                  <<"write_bandwidth", <<133, 311808>>>>}
                                            ELSE IF instance_size = "2xlarge"
                                                 THEN {<<"read_iops", <<0, 119353>>>>,
                                                       <<"read_bandwidth", <<634, 795733>>>>,
                                                       <<"write_iops", <<0, 49069>>>>,
                                                       <<"write_bandwidth", <<266, 841680>>>>}
                                                 ELSE IF instance_size = "4xlarge"
                                                      THEN {<<"read_iops", <<0, 237196>>>>,
                                                            <<"read_bandwidth", <<1262, 309504>>>>,
                                                            <<"write_iops", <<0, 98884>>>>,
                                                            <<"write_bandwidth", <<533, 938080>>>>}
                                                      ELSE IF instance_size = "8xlarge"
                                                           THEN {<<"read_iops", <<0, 442945>>>>,
                                                                 <<"read_bandwidth", <<2522, 688939>>>>,
                                                                 <<"write_iops", <<0, 166021>>>>,
                                                                 <<"write_bandwidth", <<1063, 41152>>>>}
                                                           ELSE IF instance_size = "12xlarge"
                                                                THEN {<<"read_iops", Times(<<0, 353691>>, nr_disks)>>,
                                                                      <<"read_bandwidth", Times(<<1908, 192256>>, nr_disks)>>,
                                                                      <<"write_iops", Times(<<0, 146732>>, nr_disks)>>,
                                                                      <<"write_bandwidth", Times(<<806, 399360>>, nr_disks)>>}
                                                                ELSE IF instance_size = "16xlarge"
                                                                     THEN {<<"read_iops", Times(<<0, 426893>>, nr_disks)>>,
                                                                           <<"read_bandwidth", Times(<<2525, 781589>>, nr_disks)>>,
                                                                           <<"write_iops", Times(<<0, 161740>>, nr_disks)>>,
                                                                           <<"write_bandwidth", Times(<<1063, 389952>>, nr_disks)>>}
                                                                     ELSE IF instance_size = "metal"
                                                                          THEN {<<"read_iops", Times(<<0, 416257>>, nr_disks)>>,
                                                                                <<"read_bandwidth", Times(<<2527, 296683>>, nr_disks)>>,
                                                                                <<"write_iops", Times(<<0, 156326>>, nr_disks)>>,
                                                                                <<"write_bandwidth", Times(<<1063, 657088>>, nr_disks)>>}
                                                                          ELSE {}
                             ELSE IF instance = "im4gn.large"
                                  THEN {<<"read_iops", <<0, 33943>>>>,
                                        <<"read_bandwidth", <<288, 433525>>>>,
                                        <<"write_iops", <<0, 27877>>>>,
                                        <<"write_bandwidth", <<126, 864680>>>>}
                                  ELSE IF instance = "im4gn.xlarge"
                                       THEN {<<"read_iops", <<0, 68122>>>>,
                                             <<"read_bandwidth", <<576, 603520>>>>,
                                             <<"write_iops", <<0, 55246>>>>,
                                             <<"write_bandwidth", <<254, 534954>>>>}
                                       ELSE IF instance = "im4gn.2xlarge"
                                            THEN {<<"read_iops", <<0, 136422>>>>,
                                                  <<"read_bandwidth", <<1152, 663765>>>>,
                                                  <<"write_iops", <<0, 92184>>>>,
                                                  <<"write_bandwidth", <<508, 926453>>>>}
                                            ELSE IF instance = "im4gn.4xlarge"
                                                 THEN {<<"read_iops", <<0, 273050>>>>,
                                                       <<"read_bandwidth", <<1638, 427264>>>>,
                                                       <<"write_iops", <<0, 92173>>>>,
                                                       <<"write_bandwidth", <<1027, 966826>>>>}
                                                 ELSE IF instance = "im4gn.8xlarge"
                                                      THEN {<<"read_iops", Times(<<0, 250241>>, nr_disks)>>,
                                                            <<"read_bandwidth", Times(<<1163, 130709>>, nr_disks)>>,
                                                            <<"write_iops", Times(<<0, 86374>>, nr_disks)>>,
                                                            <<"write_bandwidth", Times(<<977, 617664>>, nr_disks)>>}
                                                      ELSE IF instance = "im4gn.16xlarge"
                                                           THEN {<<"read_iops", Times(<<0, 273030>>, nr_disks)>>,
                                                                 <<"read_bandwidth", Times(<<1638, 211413>>, nr_disks)>>,
                                                                 <<"write_iops", Times(<<0, 92607>>, nr_disks)>>,
                                                                 <<"write_bandwidth", Times(<<1028, 340266>>, nr_disks)>>}
                                                           ELSE IF instance = "is4gen.medium"
                                                                THEN {<<"read_iops", <<0, 33965>>>>,
                                                                      <<"read_bandwidth", <<288, 462506>>>>,
                                                                      <<"write_iops", <<0, 27876>>>>,
                                                                      <<"write_bandwidth", <<126, 954200>>>>}
                                                                ELSE IF instance = "is4gen.large"
                                                                     THEN {<<"read_iops", <<0, 68131>>>>,
                                                                           <<"read_bandwidth", <<576, 654869>>>>,
                                                                           <<"write_iops", <<0, 55257>>>>,
                                                                           <<"write_bandwidth", <<254, 551002>>>>}
                                                                     ELSE IF instance = "is4gen.xlarge"
                                                                          THEN {<<"read_iops", <<0, 136413>>>>,
                                                                                <<"read_bandwidth", <<1152, 747904>>>>,
                                                                                <<"write_iops", <<0, 92180>>>>,
                                                                                <<"write_bandwidth", <<508, 889546>>>>}
                                                                          ELSE IF instance = "is4gen.2xlarge"
                                                                               THEN {<<"read_iops", <<0, 273038>>>>,
                                                                                     <<"read_bandwidth", <<1628, 982613>>>>,
                                                                                     <<"write_iops", <<0, 92182>>>>,
                                                                                     <<"write_bandwidth", <<1027, 983530>>>>}
                                                                               ELSE IF instance = "is4gen.4xlarge"
                                                                                    THEN {<<"read_iops", Times(<<0, 260493>>, nr_disks)>>,
                                                                                          <<"read_bandwidth", Times(<<1217, 396928>>, nr_disks)>>,
                                                                                          <<"write_iops", Times(<<0, 83169>>, nr_disks)>>,
                                                                                          <<"write_bandwidth", Times(<<1000, 390784>>, nr_disks)>>}
                                                                                    ELSE IF instance = "is4gen.8xlarge"
                                                                                         THEN {<<"read_iops", Times(<<0, 273021>>, nr_disks)>>,
                                                                                               <<"read_bandwidth", Times(<<1656, 354602>>, nr_disks)>>,
                                                                                               <<"write_iops", Times(<<0, 92233>>, nr_disks)>>,
                                                                                               <<"write_bandwidth", Times(<<1028, 10325>>, nr_disks)>>}
                                                                                         ELSE {}

\* gcp_io_setup.generate, lines 209-234, by nvme_disk_count
gcp_io_setup_presets(nr_disks) ==
    IF (nr_disks >= 1 /\ nr_disks < 4)
    THEN {<<"read_iops", Times(<<0, 170000>>, nr_disks)>>,
          <<"read_bandwidth", Times(Times(mbs, 660), nr_disks)>>,
          <<"write_iops", Times(<<0, 90000>>, nr_disks)>>,
          <<"write_bandwidth", Times(Times(mbs, 350), nr_disks)>>}
    ELSE IF (nr_disks >= 4 /\ nr_disks <= 8)
         THEN {<<"read_iops", <<0, 680000>>>>,
               <<"read_bandwidth", Times(mbs, 2650)>>,
               <<"write_iops", <<0, 360000>>>>,
               <<"write_bandwidth", Times(mbs, 1400)>>}
         ELSE IF nr_disks = 16
              THEN {<<"read_iops", <<1, 600000>>>>,
                    <<"read_bandwidth", <<4521, 251328>>>>,
                    <<"write_iops", <<0, 800000>>>>,
                    <<"write_bandwidth", <<2759, 452672>>>>}
              ELSE IF nr_disks = 24
                   THEN {<<"read_iops", <<2, 400000>>>>,
                         <<"read_bandwidth", <<5921, 532416>>>>,
                         <<"write_iops", <<1, 200000>>>>,
                         <<"write_bandwidth", <<4663, 37952>>>>}
                   ELSE {}

\* azure_io_setup.generate, lines 258-287, by nvme_disk_count
azure_io_setup_presets(nr_disks) ==
    IF nr_disks = 1
    THEN {<<"read_iops", <<0, 400000>>>>,
          <<"read_bandwidth", Times(mbs, 2000)>>,
          <<"write_iops", <<0, 271696>>>>,
          <<"write_bandwidth", Times(mbs, 1314)>>}
    ELSE IF nr_disks = 2
         THEN {<<"read_iops", <<0, 800000>>>>,
               <<"read_bandwidth", Times(mbs, 4000)>>,
               <<"write_iops", <<0, 552434>>>>,
               <<"write_bandwidth", Times(mbs, 2478)>>}
         ELSE IF nr_disks = 4
              THEN {<<"read_iops", <<1, 500000>>>>,
                    <<"read_bandwidth", Times(mbs, 8000)>>,
                    <<"write_iops", <<1, 105063>>>>,
                    <<"write_bandwidth", Times(mbs, 4948)>>}
              ELSE IF nr_disks = 6
                   THEN {<<"read_iops", <<2, 200000>>>>,
                         <<"read_bandwidth", Times(mbs, 14000)>>,
                         <<"write_iops", <<1, 616847>>>>,
                         <<"write_bandwidth", Times(mbs, 7892)>>}
                   ELSE IF nr_disks = 8
                        THEN {<<"read_iops", <<2, 900000>>>>,
                              <<"read_bandwidth", Times(mbs, 16000)>>,
                              <<"write_iops", <<2, 208081>>>>,
                              <<"write_bandwidth", Times(mbs, 9694)>>}
                        ELSE IF nr_disks = 10
                             THEN {<<"read_iops", <<3, 800000>>>>,
                                   <<"read_bandwidth", Times(mbs, 20000)>>,
                                   <<"write_iops", <<2, 546511>>>>,
                                   <<"write_bandwidth", Times(mbs, 11998)>>}
                             ELSE {}


\* the AWS instance types of the model: fixed and per-disk presets, supported
\* classes without a preset, and classes that are not supported
AwsTypes ==
    {<<"i3", "large">>, <<"i3", "xlarge">>, <<"i3", "8xlarge">>,
     <<"i3en", "large">>, <<"i3en", "2xlarge">>, <<"i3en", "24xlarge">>,
     <<"i2", "xlarge">>, <<"c6gd", "medium">>, <<"m6gd", "12xlarge">>,
     <<"x2gd", "32xlarge">>, <<"im4gn", "large">>, <<"im4gn", "8xlarge">>,
     <<"is4gen", "8xlarge">>, <<"i4i", "large">>, <<"c5d", "large">>,
     <<"i7i", "xlarge">>, <<"t3", "micro">>, <<"m5", "large">>}

\* the disk counts GCP and Azure instances report in the model
NvmeCounts == (0..MaxLocalDisks) \cup {3, 4, 5, 6, 8, 10, 12, 16, 24}

\* the resolver after __init__: disk_properties = {}
IoInit ==
    /\ ioType \in (IF ioProv = "aws" THEN AwsTypes ELSE {<<>>})
    /\ ioSupported \in (IF ioProv = "aws"
                        THEN {ioType[1] \in AwsSupportedClasses}
                        ELSE IF ioProv = "-" THEN {FALSE} ELSE BOOLEAN)
    /\ ioDisks \in (IF ioProv = "aws" THEN 0..MaxLocalDisks
                    ELSE IF ioProv = "-" THEN {0} ELSE NvmeCounts)
    /\ ioPc = "new"
    /\ ioProps = {}
    /\ ioMount = FALSE
    /\ ioErr = ""
    /\ ioFile = <<>>

\* the items generate() of the provider's class puts into disk_properties
Presets ==
    IF ioProv = "aws"
    THEN aws_io_setup_presets(instancetype(ioType), ioType[1], ioType[2],
                              ioDisks)
    ELSE IF ioProv = "gcp" THEN gcp_io_setup_presets(ioDisks)
                           ELSE azure_io_setup_presets(ioDisks)

\* generate()
Generate ==
    /\ ioPc = "new"
    /\ IF ~ioSupported
       THEN /\ ioErr' = RaiseCall("UnsupportedInstanceClassError")
            /\ ioPc' = "raised"
            /\ UNCHANGED <<ioProps, ioMount>>
       ELSE /\ ioMount' = TRUE
            /\ ioProps' = Presets
            /\ IF ~Has(Presets, "read_iops")
               THEN /\ ioErr' = RaiseCall("PresetNotFoundError")
                    /\ ioPc' = "raised"
               ELSE /\ ioErr' = ""
                    /\ ioPc' = "generated"
    /\ UNCHANGED <<ioProv, ioType, ioSupported, ioDisks, ioFile>>
    /\ IoOnly

\* save(), called once generate() has returned
Save ==
    /\ ioPc = "generated"
    /\ Has(ioProps, "read_iops")
    /\ ioFile' = <<ioProps>>
    /\ ioPc' = "saved"
    /\ UNCHANGED <<ioProv, ioType, ioSupported, ioDisks, ioProps, ioMount,
                   ioErr>>
    /\ IoOnly

IoNext ==
    \/ Generate
    \/ Save

\* ==================================================================
\* The descriptor: get_cloud_instance() and the metadata-backed properties
\* ==================================================================
\* most descriptors constructed in one process
MaxObjects == 2

\* most accesses of one property of one descriptor
MaxAccesses == 2

\* how each variant declares its metadata-backed properties: with
\* functools.cached_property, with a plain property, or (OciInstance) with a
\* plain property that reads __get_instance_data()
Declared(p) ==
    CASE p = "aws" -> [instancetype |-> "cached_property",
                       user_data |-> "property"]
      [] p = "gcp" -> [instancetype |-> "cached_property",
                       user_data |-> "property"]
      [] p = "azure" -> [instancetype |-> "cached_property",
                         instancelocation |-> "cached_property",
                         instancezone |-> "cached_property",
                         user_data |-> "property"]
      [] p = "oci" -> [instancetype |-> "property",
                       user_data |-> "property",
                       ocpus |-> "instance_data",
                       region |-> "instance_data",
                       availability_zone |-> "instance_data"]
      [] OTHER -> [instancetype |-> "-"]

PropertyNames ==
    {"instancetype", "instancelocation", "instancezone", "user_data",
     "ocpus", "region", "availability_zone"}

\* what the metadata service answers a request for the user-data: the body,
\* or, without user-data, an empty body on Azure and 404 elsewhere
UserDataAnswer(p, has) ==
    IF has THEN "body" ELSE IF p = "azure" THEN "empty" ELSE "http4xx"

\* AwsInstance.user_data: the base listing is fetched, and the user-data only
\* if the listing names it
AwsUserData(has) ==
    IF has THEN [requests |-> 2, result |-> "value"]
           ELSE [requests |-> 1, result |-> ""]

\* mutant: the HTTPError of a missing attribute is not caught
GcpUserDataUncaught(answer) ==
    [requests |-> 1,
     result |-> IF answer = "body" THEN "value" ELSE "raised"]

\* GcpInstance.user_data: except urllib.error.HTTPError: return ""
GcpUserData(answer) ==
    [requests |-> 1,
     result |-> IF answer = "body" THEN "value"
                ELSE IF answer = "http4xx" THEN "" ELSE "raised"]

\* AzureInstance.user_data: if not encoded_user_data: return ""
AzureUserData(answer) ==
    [requests |-> 1,
     result |-> IF answer = "empty" THEN ""
                ELSE IF answer = "body" THEN "value" ELSE "raised"]

\* OciInstance.user_data: except Exception: return ""
OciUserData(answer) ==
    [requests |-> 1,
     result |-> IF answer = "body" THEN "value" ELSE ""]

\* the user_data property of the variant
user_data(p, has) ==
    CASE p = "aws" -> AwsUserData(has)
      [] p = "gcp" -> GcpUserData(UserDataAnswer(p, has))
      [] p = "azure" -> AzureUserData(UserDataAnswer(p, has))
      [] OTHER -> OciUserData(UserDataAnswer(p, has))

\* running the function behind a property: the requests it makes and its
\* result
Getter(prop) ==
    IF prop = "user_data" THEN user_data(oProv, oHasUserData)
    ELSE [requests |-> 1, result |-> "value"]

\* does this access fetch? A cached_property runs its function when the
\* object holds no value for it, a plain property every time, and
\* __get_instance_data() fetches while __instance_data is None
Fetches(prop) ==
    CASE Declared(oProv)[prop] = "cached_property" -> prop \notin oCached
      [] Declared(oProv)[prop] = "instance_data" ->
            "__instance_data" \notin oCached
      [] OTHER -> TRUE

\* what the access leaves stored in the object
Stored(prop) ==
    CASE Declared(oProv)[prop] = "cached_property" -> {prop}
      [] Declared(oProv)[prop] = "instance_data" -> {"__instance_data"}
      [] OTHER -> {}

NoAccesses == [prop \in PropertyNames |-> 0]

NoResult == [prop |-> "-", value |-> "-"]

\* the provider is detected; no descriptor yet
ObjInit ==
    /\ oHasUserData \in (IF oProv = "-" THEN {FALSE} ELSE BOOLEAN)
    /\ oConstructed = 0
    /\ oEnumerated = 0
    /\ oCached = {}
    /\ oAccesses = NoAccesses
    /\ oRequests = NoAccesses
    /\ oResult = NoResult

\* get_cloud_instance(): identify_cloud() answers from its cache and cls()
\* constructs a descriptor; the caller goes on with the new one
GetCloudInstance ==
    /\ oProv # "-"
    /\ oConstructed < MaxObjects
    /\ oConstructed' = oConstructed + 1
    /\ oEnumerated' = oEnumerated + (IF oProv = "aws" THEN 1 ELSE 0)
    /\ oCached' = {}
    /\ oAccesses' = NoAccesses
    /\ oRequests' = NoAccesses
    /\ oResult' = NoResult
    /\ UNCHANGED <<oProv, oHasUserData>>
    /\ ObjOnly

\* one access of a property of the newest descriptor
Access(prop) ==
    /\ oConstructed > 0
    /\ prop \in DOMAIN Declared(oProv)
    /\ oAccesses[prop] < MaxAccesses
    /\ oAccesses' = [oAccesses EXCEPT ![prop] = @ + 1]
    /\ oRequests' = [oRequests EXCEPT
                        ![prop] = @ + (IF Fetches(prop)
                                       THEN Getter(prop).requests ELSE 0)]
    /\ oCached' = oCached \cup Stored(prop)
    /\ oResult' = [prop |-> prop, value |-> Getter(prop).result]
    /\ UNCHANGED <<oProv, oHasUserData, oConstructed, oEnumerated>>
    /\ ObjOnly

ObjNext ==
    \/ GetCloudInstance
    \/ \E prop \in PropertyNames : Access(prop)

\* ==================================================================
\* Specifications: one per part of the program, the other parts at rest
\* ==================================================================
\* the initial states: dmi drawn from D, the boot inputs from B, S and R,
\* the instance whose disks are enumerated from P, the IO preset resolver
\* from I, the provider of the descriptors from O
InitWith(D, B, S, R, P, I, O) ==
    /\ RaceInit /\ dmi \in D
    /\ CurlInit
    /\ TokenInit
    /\ BootInit /\ bDetected \in B /\ bStep \in S /\ bRaw \in R
    /\ dProv \in P /\ DiskInit
    /\ ioProv \in I /\ IoInit
    /\ oProv \in O /\ ObjInit

InitRace == InitWith(SUBSET Providers, {"none"}, {"configure"}, {"empty"}, {"-"},
                     {"-"}, {"-"})

InitRest == InitWith({{}}, {"none"}, {"configure"}, {"empty"}, {"-"},
                     {"-"}, {"-"})

InitBoot == InitWith({{}}, Providers \cup {"none"}, Steps, RawUserData, {"-"},
                     {"-"}, {"-"})

InitDisk == InitWith({{}}, {"none"}, {"configure"}, {"empty"}, Providers,
                     {"-"}, {"-"})

SpecRace == InitRace /\ [][RaceNext]_vars

SpecCurl == InitRest /\ [][CurlNext]_vars

SpecToken == InitRest /\ [][TokenNext]_vars

SpecBoot == InitBoot /\ [][BootNext]_vars

SpecDisk == InitDisk /\ [][DiskNext]_vars

InitIo == InitWith({{}}, {"none"}, {"configure"}, {"empty"}, {"-"},
                   {"aws", "gcp", "azure"}, {"-"})

SpecIo == InitIo /\ [][IoNext]_vars

InitObj == InitWith({{}}, {"none"}, {"configure"}, {"empty"}, {"-"}, {"-"},
                    Providers)

SpecObj == InitObj /\ [][ObjNext]_vars

\* ==================================================================
\* Claims about the provider race
\* ==================================================================
\* a new race starts in this step (the per-race state is reset)
RaceRestarts == mainPc = "idle" /\ mainPc' = "waiting"

\* C1: when no DMI signature matches and provider B's probe is the first
\* to succeed, the race resolves to B, and once B is selected the race
\* coroutine awaits no further task and keeps its result.
C1_FirstSuccessWins ==
    /\ [](dmi = {} /\ raceResult # "unset" /\ firstOk \in Providers
            => raceResult = firstOk)
    /\ [][(raceResult \in Providers /\ ~RaceRestarts)
            => (awaited' = awaited /\ raceResult' = raceResult)]_vars

\* C1 witness: Azure's probe succeeded first while AWS's was still pending;
\* Azure was selected and AWS was cancelled instead of awaited.
C1_Witness ==
    /\ dmi = {}
    /\ firstOk = "azure"
    /\ raceResult = "azure"
    /\ tres["aws"] = "cancelled"
    /\ awaited < Cardinality(Providers)

C3_NoNetworkOnDmiMatch ==
    Cardinality(dmi) = 1 =>
        /\ \A p \in Providers : attempts[p] = 0
        /\ dnsLookups = 0

\* C4: provider detection runs at most once in a process, whatever the
\* sequence of calls.
C4_DetectedAtMostOnce == detections <= 1

\* C5: when no DMI signature matches and no probe request is answered,
\* detection fails: no provider is resolved or memoized, every probe makes
\* at most max_retries requests, and the race never gets stuck before it
\* has returned.
C5_AllFailNoProvider ==
    /\ dmi = {} /\ okSeen = {} =>
        /\ raceResult \notin Providers
        /\ cache \notin Providers
        /\ lastReturn \notin Providers \cup {"True"}
    /\ \A p \in Providers : attempts[p] <= MaxRetries
    /\ mainPc # "idle" => ENABLED RaceNext

\* C5 witness: every probe was tried to exhaustion, none was answered, and
\* identify_cloud returned None.
C5_Witness ==
    /\ dmi = {}
    /\ okSeen = {}
    /\ mainPc = "idle"
    /\ raceResult = "none"
    /\ cache = "none"
    /\ \A p \in Providers : attempts[p] = MaxRetries

\* C7: a probe is suspended while its metadata request is outstanding, so
\* the event loop can run the step of another probe that is next in its
\* queue.
C7_RequestDoesNotBlock ==
    \A p \in Providers : \A q \in Providers \ {p} :
        (/\ tpc[p] = "request"
         /\ ntodo > 0
         /\ ready # <<>>
         /\ Head(ready) = Handle("step", q))
        => ENABLED (TaskStart(q) \/ (\E e \in Retryable : TaskWake(q, e)))

\* C12: every network operation that detection waits in was started with
\* an explicit timeout, so that no step of identify_cloud() can wait
\* without bound.
C12_EveryWaitHasTimeout ==
    \A p \in Providers :
        tpc[p] \in {"request", "resolve"} => NetTimeout(tpc[p]) > 0

C8_TokenWithinMargin ==
    lastMeta.fetched => lastMeta.age <= METADATA_TOKEN_TTL - TokenMargin

\* C9: with a token held, __instance_metadata refreshes it when the time
\* since its issue lies inside the last 120 s before the TTL, and does not
\* when that time is shorter.
C9_RefreshInsideMargin ==
    lastMeta.held =>
        /\ (/\ lastMeta.elapsed >= METADATA_TOKEN_TTL - TokenMargin
            /\ lastMeta.elapsed <= METADATA_TOKEN_TTL) => lastMeta.refreshed
        /\ lastMeta.elapsed < METADATA_TOKEN_TTL - TokenMargin
            => ~lastMeta.refreshed

\* C10: when an attempt of curl or aiocurl gets a 4xx response the call
\* ends with that error at once: one sleep per earlier attempt and none
\* after this one, and no attempt follows.
C10_ClientErrorNotRetried ==
    cErr = "http4xx" =>
        /\ cPc = "done"
        /\ cResult = "raised"
        /\ cSleeps = cAttempts - 1
        /\ cRetries = cAttempts - 1

\* C10 witness: aiocurl's second attempt got a 4xx after one retried error.
C10_Witness ==
    /\ cAsync
    /\ cErr = "http4xx"
    /\ cAttempts = 2
    /\ cSleeps = 1
    /\ cPc = "done"

\* the transport-level errors of a request: timeout, refused, DNS failure
TransportErrors == {"urlerror", "timeout"}

\* C11: a call of curl or aiocurl issues one request per attempt and never
\* more than max_retries of them; every failed attempt that is not a client
\* error is followed by one sleep of the fixed retry interval; a call whose
\* attempts all failed, the last with a transport-level error, raises that
\* error to its caller after exactly max_retries requests; and a call in
\* progress always has a next step.
C11_TransportRetriesBounded ==
    /\ cAttempts <= cMax
    /\ cRetries <= cMax
    /\ cSleeps <= cAttempts
    /\ (cPc = "done" /\ cErr \in TransportErrors) =>
        /\ cResult = "raised"
        /\ cAttempts = cMax
        /\ cSleeps = cMax
        /\ cRetries = cMax
    /\ cPc \in {"request", "sleep"} => ENABLED CurlNext

\* C11 witness: curl with the default max_retries timed out five times and
\* raised the TimeoutError.
C11_Witness ==
    /\ ~cAsync
    /\ cMax = MaxRetries
    /\ cPc = "done"
    /\ cResult = "raised"
    /\ cErr = "timeout"
    /\ cAttempts = MaxRetries

\* ==================================================================
\* Claims about disk enumeration
\* ==================================================================
\* the disk set of the instance has been enumerated (by the constructor on
\* AWS, by reading os_disks elsewhere)
Enumerated ==
    \/ dProv = "aws" /\ dPc # "new"
    \/ "os_disks" \in dAsked

\* C13: for each of the four variants, when the partition table shows more
\* than one partition mounted at "/", enumeration raises and gives no disk
\* set, and neither does get_local_disks().
C13_AmbiguousRootRaises ==
    Cardinality(root_dev_candidates) > 1 =>
        /\ Enumerated => dDisks.err
        /\ "get_local_disks" \in dAsked => dLocal.err

\* the disks the entries of a bucket stand for: an entry is a name of /dev
\* or its path, a partition stands for the disk it lies on, and /dev/root
\* for the disk of the partition mounted at "/"
DevicesOf(bucket) ==
    UNION {IF x = DevRoot THEN {DiskOf(r) : r \in dRoots}
           ELSE {DiskOf(RemovePrefix(x, DevDir))} : x \in bucket}

\* the disks backing the mounts at "/"
RootDisks == {DiskOf(r) : r \in dRoots}

\* C14: the root, ephemeral, persistent and swap buckets of an enumeration
\* are pairwise disjoint: no device is in two of them.
C14_BucketsDisjoint ==
    (Enumerated /\ ~dDisks.err) =>
        LET r == DevicesOf(dDisks.root)
            e == DevicesOf(dDisks.ephemeral)
            q == DevicesOf(dDisks.persistent)
            w == DevicesOf(dDisks.swap)
        IN /\ r \cap e = {} /\ r \cap q = {} /\ r \cap w = {}
           /\ e \cap q = {} /\ e \cap w = {}
           /\ q \cap w = {}

\* C15: the device backing "/" is never among the ephemeral or the
\* persistent disks of an enumeration, nor among get_local_disks().
C15_RootNeverLocalOrRemote ==
    /\ (Enumerated /\ ~dDisks.err) =>
        RootDisks \cap (DevicesOf(dDisks.ephemeral)
                        \cup DevicesOf(dDisks.persistent)) = {}
    /\ ("get_local_disks" \in dAsked /\ ~dLocal.err) =>
        RootDisks \cap DevicesOf(dLocal.disks) = {}

\* the smaller of two numbers
Min(a, b) == IF a <= b THEN a ELSE b

\* C16: on GCP, with the NVMe disks of the metadata's disks resource
\* counted, nvme_disk_count is the smaller of that count and the number of
\* local NVMe devices the OS enumeration gives (get_local_disks()); when
\* the two agree it is their common value.
C16_GcpCountIsSmaller ==
    (/\ dProv = "gcp"
     /\ {"nvme_disk_count", "get_local_disks"} \subseteq dAsked
     /\ dMdCount >= 0) =>
        /\ dCount = Min(Cardinality(dLocal.disks), dMdCount)
        /\ Cardinality(dLocal.disks) = dMdCount => dCount = dMdCount

\* C16 witness: the OS shows three local NVMe devices, the metadata two:
\* nvme_disk_count is 2.
C16_Witness ==
    /\ dProv = "gcp"
    /\ {"nvme_disk_count", "get_local_disks"} \subseteq dAsked
    /\ Cardinality(dLocal.disks) = 3
    /\ dMdCount = 2
    /\ dCount = 2

\* C17: on GCP, get_local_disks() never returns more devices than the
\* metadata reports NVMe disks, nor more than nvme_disk_count.
C17_GcpLocalDisksWithinCounts ==
    (dProv = "gcp" /\ "get_local_disks" \in dAsked) =>
        /\ dMdCount >= 0 => Cardinality(dLocal.disks) <= dMdCount
        /\ "nvme_disk_count" \in dAsked => Cardinality(dLocal.disks) <= dCount

C19_AzureSwapDevice ==
    (dProv = "azure" /\ Enumerated /\ ~dDisks.err) =>
        IF dSwap # <<>>
        THEN /\ dDisks.swap = {RemovePrefix(dSwap, DevDir)}
             /\ RemovePrefix(dSwap, DevDir) \notin dDisks.persistent
        ELSE dDisks.swap = {}

\* C19 witness: the symlink resolves to /dev/sdb; sdb is the swap device
\* and sdc the only persistent disk.
C19_Witness ==
    /\ dProv = "azure"
    /\ Enumerated
    /\ dSwap = Dev(sdb)
    /\ dDisks.swap = {sdb}
    /\ dDisks.persistent = {sdc}

\* C20: on AWS every device the block device mapping lists under a legacy
\* name is, once translated to the OS's name and found in /dev, in the
\* bucket of its mapping type: the EBS devices, and the ephemeral devices
\* of an instance without NVMe devices.
C20_LegacyNamesTranslated ==
    (dProv = "aws" /\ dPc = "ready") =>
        \A m \in dDevmap :
            LET t == LeadingNonDigits(m.key) IN
            /\ (t = EBS /\ device_exists(xenify(m)))
                    => xenify(m) \in dDisks.persistent
            /\ (/\ t = EPHEMERAL
                /\ device_exists(xenify(m))
                /\ {x \in dListing : NvmeReMatch(x)} = {})
                    => xenify(m) \in dDisks.ephemeral

\* ==================================================================
\* Claims about the IO preset resolvers
\* ==================================================================
\* the keys of a profile
ProfileKeys == {"read_iops", "read_bandwidth", "write_iops", "write_bandwidth"}

\* C21: when is_supported_instance_class() is false, generate() fails with
\* the unsupported-class error before any preset lookup: disk_properties
\* stays empty and nothing is saved
C21_UnsupportedShortCircuits ==
    (ioPc # "new" /\ ~ioSupported) =>
        /\ ioPc = "raised"
        /\ ioErr = "UnsupportedInstanceClassError"
        /\ ioProps = {}
        /\ ~ioMount
        /\ ioFile = <<>>

\* C22: generate() on a supported class whose instance resolves to no preset
\* raises nothing
C22_MissRaisesNothing ==
    (ioPc # "new" /\ ioSupported /\ ~Has(Presets, "read_iops")) =>
        /\ ioErr = ""
        /\ ioPc # "raised"

\* C23: the error of a preset miss on a supported class is never the error an
\* unsupported class surfaces as
C23_MissIsNotUnsupported ==
    (ioPc = "raised" /\ ioSupported) =>
        ioErr # RaiseCall("UnsupportedInstanceClassError")

\* C24: on AWS every figure of the resolved profile is the figure the same
\* instance type gets with one local disk, multiplied by the local disk count
C24_PerDiskScaling ==
    (ioProv = "aws" /\ ioPc \in {"generated", "saved"}) =>
        \A key \in ProfileKeys :
            Get(ioProps, key) =
                Times(Get(aws_io_setup_presets(instancetype(ioType), ioType[1],
                                               ioType[2], 1), key), ioDisks)

\* ==================================================================
\* Claims about the descriptor
\* ==================================================================
\* C25: over the accesses of one property of one descriptor at most one
\* metadata request is made for it
C25_FetchedAtMostOnce ==
    \A prop \in PropertyNames : oRequests[prop] <= 1

\* C26: once the provider is detected, one descriptor is constructed in the
\* process and the disks are enumerated for it once, however often the
\* cloud instance is requested
C26_ConstructedOnce ==
    /\ oConstructed <= 1
    /\ oEnumerated <= 1

\* C27: on an instance without user-data the user_data property gives the
\* empty string and raises nothing, whatever the variant
C27_NoUserDataIsEmpty ==
    (oResult.prop = "user_data" /\ ~oHasUserData) => oResult.value = ""

\* user_data was read on a GCP instance without user-data, where the
\* metadata service answers 404
C27_Witness ==
    /\ oProv = "gcp"
    /\ ~oHasUserData
    /\ oResult.prop = "user_data"
    /\ oAccesses["user_data"] = 1

\* ==================================================================
\* Claims about the provider race, continued
\* ==================================================================
\* provider p's probe moves in this step
ProbeStep(p) ==
    \/ tpc'[p] # tpc[p]
    \/ attempts'[p] # attempts[p]
    \/ retries'[p] # retries[p]

\* C28: a step of a probe that is not the first to succeed (it fails, takes
\* its cancellation, or succeeds after another one has) changes neither the
\* memoized detection result, nor a metadata token, nor what the last call
\* returned
C28_LoserWritesNothing ==
    [][\A p \in Providers :
        (ProbeStep(p) /\ ~RaceRestarts /\ firstOk' # p) =>
            /\ cache' = cache
            /\ tokIssued' = tokIssued
            /\ tokTime' = tokTime
            /\ lastReturn' = lastReturn]_vars

\* AWS's probe was answered first and won; Azure's request was answered
\* after that and its result was discarded; no token is held
C28_Witness ==
    /\ firstOk = "aws"
    /\ okSeen = {"aws", "azure"}
    /\ tres["azure"] = "cls"
    /\ cache = "aws"
    /\ tokIssued = -1

\* ==================================================================
\* Claims about the boot steps, continued
\* ==================================================================
\* C29: the post-start step given a MIME multipart message whose x-scylla/json
\* or x-scylla/yaml part carries a post_start_script runs the script and
\* completes without error, as it does for the same settings as plain JSON
C29_MultipartScriptRuns ==
    (/\ bStep = "post_start"
     /\ bPc = "done"
     /\ bCloud \in Providers
     /\ bRaw \in {"mime_json", "mime_yaml", "json"}
     /\ bScript) =>
        /\ bOutcome = "completed"
        /\ bRan

\* ==================================================================
\* Claims about the provider race: failing probes
\* ==================================================================
\* C30: detection fails only when all four probes have failed: when the race
\* has ended without a provider, every probe has ended in a failure of its
\* own (none was cut short because another one failed), and when a probe's
\* request was answered the race ended with a provider
C30_FailsOnlyWhenAllFailed ==
    /\ raceResult \in {"none", "raised"} =>
        \A p \in Providers : tres[p] \in {"none", "exc"}
    /\ (okSeen # {} /\ raceResult # "unset") => raceResult \in Providers

====
